---- MODULE Spec2Model ----
(***************************************************************************)
(* hack-vm: a translator from the stack VM language to Hack assembly.      *)
(*                                                                         *)
(* The model has two layers.  The CodeWriter of src/src/lib.rs is modelled *)
(* operation by operation: every write_* method appends the lines of its   *)
(* `result` string to out_stream and updates the writer's context.  The    *)
(* emitted text is then given its meaning by a model of the Hack computer  *)
(* (16-bit words, A and D registers, RAM, program counter) that executes   *)
(* the instructions of out_stream, so that statements about "executing the *)
(* code of `call f n`" are statements about reachable machine states.      *)
(***************************************************************************)
EXTENDS Integers, Sequences, FiniteSets, TLC

VARIABLES
    done,        \* the commands translated so far, in order
    status,      \* "init" | "translating" | "finished" | "aborted"
    out_stream,  \* CodeWriter.out_stream: the emitted lines, in order
    namespace,   \* CodeWriter.namespace
    cur_func,    \* CodeWriter.cur_func
    call_count,  \* CodeWriter.call_count
    regA,        \* Hack A register
    regD,        \* Hack D register
    ram,         \* Hack data memory, the cells that are not zero
    pc,          \* Hack program counter (a ROM address), -1 while pend # ""
    pend,        \* label the machine jumped to that is not yet emitted
    trail,       \* history: trail[i] is the machine after done[i]
    frames,      \* history: what each executed call saw, innermost last
    parser,      \* the Parser: input, pos, has_lines_remaining, cur_line, line, line_raw
    seen,        \* history: the parser calls made on this stream and what they gave
    units,       \* main: the input files not yet translated
    place        \* main: "main", or "translate_file" inside the loop of a unit

writer_vars == <<done, status, out_stream, namespace, cur_func, call_count,
                 regA, regD, ram, pc, pend, trail, frames>>

vars == <<done, status, out_stream, namespace, cur_func, call_count,
          regA, regD, ram, pc, pend, trail, frames, parser, seen, units, place>>

-----------------------------------------------------------------------------
(* 16-bit words.  A word is kept as 0..65535; Signed reads it as two's     *)
(* complement, which is how the jump conditions of the machine read it.    *)

WordMod == 2^16
AddrMod == 2^15

Wrap(x) == x % WordMod

Signed(w) == IF w >= 2^15 THEN w - WordMod ELSE w

RECURSIVE BitAnd(_, _, _)
BitAnd(x, y, bits) ==
    IF bits = 0 THEN 0
    ELSE (x % 2) * (y % 2) + 2 * BitAnd(x \div 2, y \div 2, bits - 1)

RECURSIVE BitOr(_, _, _)
BitOr(x, y, bits) ==
    IF bits = 0 THEN 0
    ELSE (IF (x % 2) + (y % 2) > 0 THEN 1 ELSE 0)
         + 2 * BitOr(x \div 2, y \div 2, bits - 1)

BitNot(x) == (WordMod - 1) - x

-----------------------------------------------------------------------------
(* Lines of assembly text.  Every line of a `result` string is a record:   *)
(*   t = "@n"  A-instruction with a number        @<n>                     *)
(*   t = "@s"  A-instruction with a symbol        @<s>                     *)
(*   t = "C"   C-instruction                      <d>=<c>;<j>              *)
(*   t = "L"   label definition                   (<s>)                    *)
(*   t = "//"  comment line                       <s>                      *)
(* b counts the bytes of the line that are not its mnemonic: the newline,  *)
(* the blanks around it and a trailing comment.                            *)

AtN(n, b) == [t |-> "@n", s |-> "", n |-> n, d |-> "", c |-> "", j |-> "", b |-> b]
AtS(s, b) == [t |-> "@s", s |-> s, n |-> 0, d |-> "", c |-> "", j |-> "", b |-> b]
CI(d, c, j, b) == [t |-> "C", s |-> "", n |-> 0, d |-> d, c |-> c, j |-> j, b |-> b]
Lbl(s, b) == [t |-> "L", s |-> s, n |-> 0, d |-> "", c |-> "", j |-> "", b |-> b]
Rem(s, b) == [t |-> "//", s |-> s, n |-> 0, d |-> "", c |-> "", j |-> "", b |-> b]

IsIns(l) == l.t \in {"@n", "@s", "C"}

LineBytes(l) ==
    CASE l.t = "@n" -> 1 + Len(ToString(l.n)) + l.b
      [] l.t = "@s" -> 1 + Len(l.s) + l.b
      [] l.t = "C"  -> (IF l.d = "" THEN 0 ELSE Len(l.d) + 1) + Len(l.c)
                       + (IF l.j = "" THEN 0 ELSE 1 + Len(l.j)) + l.b
      [] l.t = "L"  -> 2 + Len(l.s) + l.b
      [] OTHER      -> Len(l.s) + l.b

RECURSIVE TextBytes(_)
TextBytes(lines) ==
    IF lines = <<>> THEN 0 ELSE LineBytes(Head(lines)) + TextBytes(Tail(lines))

-----------------------------------------------------------------------------
(* Parser.  The input stream is the sequence of its raw lines, each with   *)
(* its terminator; pos is the number of lines read.  A line is a string,   *)
(* and advance works on its characters as the code does.                   *)

\* Option<T>: None or Some(x)
None == <<>>
Some(x) == <<x>>

\* the white space of the inputs (char::is_whitespace)
WhiteSpace == {" ", "\t", "\r", "\n"}

RECURSIVE trim_start(_)
trim_start(s) ==
    IF s # "" /\ Head(s) \in WhiteSpace THEN trim_start(Tail(s)) ELSE s

RECURSIVE trim_end(_)
trim_end(s) ==
    IF s # "" /\ SubSeq(s, Len(s), Len(s)) \in WhiteSpace
    THEN trim_end(SubSeq(s, 1, Len(s) - 1)) ELSE s

\* variant of trim that leaves the leading white space
trim_end_only(s) == trim_end(s)

\* str::trim
trim(s) == trim_end(trim_start(s))

RECURSIVE find_from(_, _, _)
find_from(s, pat, loc) ==
    IF loc + Len(pat) > Len(s) THEN None
    ELSE IF SubSeq(s, loc + 1, loc + Len(pat)) = pat THEN Some(loc)
    ELSE find_from(s, pat, loc + 1)

\* str::find: the offset of the first occurrence of pat
find(s, pat) == find_from(s, pat, 0)

RECURSIVE split_from(_, _, _)
split_from(s, word, words) ==
    LET closed == IF word = "" THEN words ELSE Append(words, word)
    IN  IF s = "" THEN closed
        ELSE IF Head(s) \in WhiteSpace THEN split_from(Tail(s), "", closed)
        ELSE split_from(Tail(s), word \o Head(s), words)

\* str::split_whitespace().collect()
split_whitespace(s) == split_from(s, "", <<>>)

Digits ==
    [c \in {"0", "1", "2", "3", "4", "5", "6", "7", "8", "9"} |->
        CASE c = "0" -> 0 [] c = "1" -> 1 [] c = "2" -> 2 [] c = "3" -> 3
          [] c = "4" -> 4 [] c = "5" -> 5 [] c = "6" -> 6 [] c = "7" -> 7
          [] c = "8" -> 8 [] c = "9" -> 9]

RECURSIVE digits_value(_, _)
digits_value(s, acc) ==
    IF s = "" THEN Some(acc)
    ELSE IF Head(s) \notin DOMAIN Digits THEN None
    ELSE digits_value(Tail(s), 10 * acc + Digits[Head(s)])

\* str::parse::<i16>().ok(): an optional sign, then digits, within i16
parse_i16(s) ==
    LET signed == s # "" /\ Head(s) \in {"+", "-"}
        body   == IF signed THEN Tail(s) ELSE s
        mag    == IF body = "" THEN None ELSE digits_value(body, 0)
        val    == IF signed /\ Head(s) = "-" THEN 0 - mag[1] ELSE mag[1]
    IN  IF mag = None THEN None
        ELSE IF val < 0 - 2^15 \/ val > 2^15 - 1 THEN None
        ELSE Some(val)

\* Parser::new
new(input) ==
    [input |-> input, pos |-> 0, has_lines_remaining |-> FALSE,
     cur_line |-> None, line |-> 0, line_raw |-> 0]

\* variant of has_more_lines that asks whether the stream has lines left
has_more_lines_unread(self) == self.pos < Len(self.input)

has_more_lines(self) == self.has_lines_remaining

\* the loop of Parser::advance: the parser afterwards and what it returned
RECURSIVE advance_loop(_, _)
advance_loop(self, next_string) ==
    IF self.pos >= Len(self.input)                 \* bytes_read < 1
    THEN [parser |-> [self EXCEPT !.has_lines_remaining = FALSE, !.cur_line = None],
          result |-> "UnexpectedEof"]
    ELSE LET read     == next_string \o self.input[self.pos + 1]
             trimmed  == trim(read)
             comment  == find(trimmed, "//")
             stripped == IF comment # None
                         THEN SubSeq(trimmed, 1, comment[1]) ELSE trimmed
             moved    == [self EXCEPT !.pos = @ + 1]
         IN  IF stripped = ""
             THEN advance_loop([moved EXCEPT !.line_raw = @ + 1], stripped)
             ELSE [parser |-> [moved EXCEPT !.has_lines_remaining = TRUE,
                                            !.cur_line = Some(stripped),
                                            !.line = @ + 1],
                   result |-> "Ok"]

advance_result(self) == advance_loop(self, "")

\* variant of reset_result that clears the counters but does not rewind
reset_result_without_seek(self) ==
    [self EXCEPT !.line = 0, !.line_raw = 0, !.cur_line = None]

\* Parser::reset
reset_result(self) ==
    [self EXCEPT !.pos = 0, !.line = 0, !.line_raw = 0, !.cur_line = None]

\* Parser::set_file
set_file_result(self, file) == reset_result([self EXCEPT !.input = file])

\* Parser::match_arithmetic
match_arithmetic(command) ==
    IF command \in {"add", "sub", "neg", "and", "not", "eq", "gt", "lt", "or"}
    THEN Some("arith") ELSE None

\* Parser::split_command; the caller has a line loaded
split_command(self) == split_whitespace(self.cur_line[1])

\* Parser::command_type: the kind of the loaded line, "todo!()" where the
\* code panics on an unknown first token
command_type(self) ==
    LET command == split_command(self)[1]
    IN  IF match_arithmetic(command) # None THEN match_arithmetic(command)[1]
        ELSE IF command \in {"push", "pop", "label", "goto", "if-goto", "call",
                             "function", "return"}
        THEN command
        ELSE "todo!()"

\* Vec::get(index).map(to_string), index counted from 0
get(split, index) == IF index < Len(split) THEN Some(split[index + 1]) ELSE None

\* Parser::arg1
arg1(self) == get(split_command(self), IF command_type(self) = "arith" THEN 0 ELSE 1)

\* Parser::arg2
arg2(self) == get(split_command(self), 2)

-----------------------------------------------------------------------------
(* CodeWriter: the private text builders.                                  *)

map_vreg(register) ==
    CASE register = "local"    -> "LCL"
      [] register = "argument" -> "ARG"
      [] register = "this"     -> "THIS"
      [] register = "that"     -> "THAT"
      [] OTHER                 -> register

decrement_sp == <<AtS("SP", 1), CI("AM", "M-1", "", 2)>>

\* variant of pop_d that moves SP but never loads the popped value
pop_d_without_load == decrement_sp \o <<CI("D", "D", "", 2 + Len(" // pop D"))>>

pop_d == decrement_sp \o <<CI("D", "M", "", 2 + Len(" // pop D"))>>

\* variant of pop_a that reads the operand but leaves SP where it was
pop_a_keeps_sp ==
    <<AtS("SP", 1), CI("A", "M-1", "", 2), CI("A", "M", "", 2 + Len(" // pop A"))>>

pop_a == decrement_sp \o <<CI("A", "M", "", 2 + Len(" // pop A"))>>

push_d ==
    <<AtS("SP", 1), CI("A", "M", "", 2), CI("M", "D", "", 2), AtS("SP", 2),
      CI("M", "M+1", "", 2 + Len(" // push D"))>>

\* variant of push_m that pushes D without loading M into it
push_m_without_load == push_d

push_m == <<CI("D", "M", "", 2)>> \o push_d

load_const(val) == <<AtN(val, 1), CI("D", "A", "", 2)>>

push_const(val) == load_const(val) \o push_d

\* variant of push_label that pushes the address of the symbol, not its value
push_label_address(label_name) ==
    <<AtS(label_name, 1), CI("D", "A", "", 2)>> \o push_d

push_label(label_name) == <<AtS(label_name, 1)>> \o push_m

load_pointer_segment(index) ==
    <<AtS(IF index = 0 THEN "THIS" ELSE "THAT", 1)>>

get_label(label_type, label_name) ==
    CASE label_type = "Static" -> namespace \o "." \o label_name
      [] label_type = "FunctionCall" -> namespace \o "." \o cur_func
      [] label_type = "FunctionRet" ->
            namespace \o "." \o cur_func \o "$ret." \o ToString(call_count)
      [] label_type = "FunctionLabel" ->
            namespace \o "." \o cur_func \o "$" \o label_name

\* variant of get_label_count that advances the counter for every label type
get_label_count_every(label_type) == call_count + 1

\* variant of get_label_count that never advances the counter
get_label_count_stuck(label_type) == call_count

\* get_label's side effect on the call-site counter
get_label_count(label_type) ==
    IF label_type = "FunctionRet" THEN call_count + 1 ELSE call_count

load_vreg_address(segment, index, target_reg) ==
    <<AtN(index, 1), CI("D", "A", "", 2), AtS(map_vreg(segment), 2),
      CI("A", "M", "", 2), CI(target_reg, "D+A", "", 2)>>

load_static_address(index) == <<AtS(get_label("Static", ToString(index)), 1)>>

get_temp_var(i, reg) == <<AtS("R" \o ToString(i), 1), CI(reg, "M", "", 1)>>

store_temp_var(i) == <<AtS("R" \o ToString(i), 1), CI("M", "D", "", 1)>>

\* `&op + "\n"`: the newline the stack-op builders put after the operation
with_newline(op) ==
    [i \in 1..Len(op) |-> IF i = Len(op) THEN [op[i] EXCEPT !.b = @ + 1] ELSE op[i]]

do_stack_op_two(op) == pop_d \o pop_a \o with_newline(op) \o push_d

do_stack_op_one(op) == pop_d \o with_newline(op) \o push_d

\* variant of stream_position that counts only the bytes already flushed
\* to the file, in blocks of 8 KiB
stream_position_flushed == (TextBytes(out_stream) \div 8192) * 8192

\* BufWriter<File>::stream_position: every byte written so far
stream_position == TextBytes(out_stream)

do_compare_stack_two(jump_op) ==
    LET current_pos == stream_position
        if_label    == "IF" \o ToString(current_pos)
        endif_label == "ENDIF" \o ToString(current_pos + 1)
    IN  do_stack_op_two(
            <<CI("D", "D-A", "", 1), AtS(if_label, 2), CI("", "D", jump_op, 2),
              CI("D", "0", "", 2), AtS(endif_label, 2), CI("", "0", "JMP", 2),
              Lbl(if_label, 2), CI("D", "-1", "", 2), Lbl(endif_label, 2)>>)
        \o <<Rem("// if then", 1)>>

-----------------------------------------------------------------------------
(* CodeWriter: the `result` text of each public write_* method.            *)

temp_warning ==
    "// Warning: access to segment 'temp' above index 7 will cause overflow related errors"

\* variant of error_comment that never warns
error_comment_never(index) == <<>>

error_comment(index) == IF index > 7 THEN <<Rem(temp_warning, 1)>> ELSE <<>>

push_comment(segment, index) ==
    <<Rem("// push " \o segment \o " " \o ToString(index), 2)>>

pop_comment(segment, index) ==
    <<Rem("// pop " \o segment \o " " \o ToString(index), 2)>>

write_push_pop_result(command, segment, index) ==
    CASE command = "push" /\ segment = "pointer" ->
            load_pointer_segment(index) \o <<CI("D", "M", "", 2)>> \o push_d
            \o push_comment(segment, index)
      [] command = "push" /\ segment = "static" ->
            load_static_address(index) \o <<CI("D", "M", "", 1)>> \o push_d
            \o push_comment(segment, index)
      [] command = "push" /\ segment = "constant" ->
            push_const(index) \o push_comment(segment, index)
      [] command = "push" /\ segment = "temp" ->
            load_const(index)
            \o <<AtN(5, 1), CI("A", "D+A", "", 2), CI("D", "M", "", 2)>>
            \o push_d \o push_comment(segment, index) \o error_comment(index)
      [] command = "push" ->
            load_vreg_address(segment, index, "A") \o <<CI("D", "M", "", 2)>>
            \o push_d \o push_comment(segment, index)
      [] command = "pop" /\ segment = "pointer" ->
            pop_d \o load_pointer_segment(index) \o <<CI("M", "D", "", 1)>>
            \o pop_comment(segment, index)
      [] command = "pop" /\ segment = "static" ->
            pop_d \o load_static_address(index) \o <<CI("M", "D", "", 1)>>
            \o pop_comment(segment, index)
      [] command = "pop" /\ segment = "constant" ->
            pop_d \o <<AtN(index, 1), CI("M", "D", "", 2)>>
            \o pop_comment(segment, index)
      [] command = "pop" /\ segment = "temp" ->
            load_const(index)
            \o <<AtN(5, 1), CI("D", "D+A", "", 2), AtS("R13", 2), CI("M", "D", "", 2)>>
            \o pop_d
            \o <<AtS("R13", 1), CI("A", "M", "", 2), CI("M", "D", "", 2)>>
            \o pop_comment(segment, index) \o error_comment(index)
      [] command = "pop" ->
            load_vreg_address(segment, index, "D")
            \o <<AtS("R13", 1), CI("M", "D", "", 2)>>
            \o pop_d
            \o <<AtS("R13", 1), CI("A", "M", "", 2), CI("M", "D", "", 2)>>
            \o pop_comment(segment, index)
      [] OTHER -> <<>>

\* variant of write_arithmetic_result whose sub computes y - x
write_arithmetic_result_swapped(command) ==
    CASE command = "add" -> do_stack_op_two(<<CI("D", "D+A", "", 0)>>)
      [] command = "sub" -> do_stack_op_two(<<CI("D", "D-A", "", 0)>>)
      [] command = "neg" -> do_stack_op_one(<<CI("D", "-D", "", 0)>>)
      [] command = "eq"  -> do_compare_stack_two("JEQ")
      [] command = "gt"  -> do_compare_stack_two("JLT")
      [] command = "lt"  -> do_compare_stack_two("JGT")
      [] command = "and" -> do_stack_op_two(<<CI("D", "D&A", "", 0)>>)
      [] command = "or"  -> do_stack_op_two(<<CI("D", "D|A", "", 0)>>)
      [] command = "not" -> do_stack_op_one(<<CI("D", "!D", "", 0)>>)

write_arithmetic_result(command) ==
    CASE command = "add" -> do_stack_op_two(<<CI("D", "D+A", "", 0)>>)
      [] command = "sub" -> do_stack_op_two(<<CI("D", "A-D", "", 0)>>)
      [] command = "neg" -> do_stack_op_one(<<CI("D", "-D", "", 0)>>)
      [] command = "eq"  -> do_compare_stack_two("JEQ")
      [] command = "gt"  -> do_compare_stack_two("JLT")
      [] command = "lt"  -> do_compare_stack_two("JGT")
      [] command = "and" -> do_stack_op_two(<<CI("D", "D&A", "", 0)>>)
      [] command = "or"  -> do_stack_op_two(<<CI("D", "D|A", "", 0)>>)
      [] command = "not" -> do_stack_op_one(<<CI("D", "!D", "", 0)>>)

write_label_result(label_name) ==
    <<Lbl(get_label("FunctionLabel", label_name), 1),
      Rem("// label " \o label_name, 1)>>

write_goto_result(label_name) ==
    <<AtS(get_label("FunctionLabel", label_name), 1), CI("", "0", "JMP", 2),
      Rem("// goto " \o label_name, 1)>>

write_if_result(label_name) ==
    pop_d
    \o <<AtS(get_label("FunctionLabel", label_name), 1), CI("", "D", "JNE", 2),
         Rem("// if-goto " \o label_name, 1)>>

write_return_result ==
    <<AtS("LCL", 1), CI("D", "M", "", 1)>>
    \o store_temp_var(13)
    \o <<AtN(5, 1), CI("D", "D-A", "", 1)>>
    \o store_temp_var(14)
    \o pop_d
    \o <<AtS("ARG", 1), CI("A", "M", "", 1), CI("M", "D", "", 1)>>
    \o <<CI("D", "A", "", 1), AtS("SP", 1), CI("M", "D+1", "", 1)>>
    \o get_temp_var(13, "D")
    \o <<CI("A", "D-1", "", 1), CI("D", "M", "", 1), AtS("THAT", 1), CI("M", "D", "", 1)>>
    \o get_temp_var(13, "D")
    \o <<AtN(2, 1), CI("A", "D-A", "", 1), CI("D", "M", "", 1), AtS("THIS", 1),
         CI("M", "D", "", 1)>>
    \o get_temp_var(13, "D")
    \o <<AtN(3, 1), CI("A", "D-A", "", 1), CI("D", "M", "", 1), AtS("ARG", 1),
         CI("M", "D", "", 1)>>
    \o get_temp_var(13, "D")
    \o <<AtN(4, 1), CI("A", "D-A", "", 1), CI("D", "M", "", 1), AtS("LCL", 1),
         CI("M", "D", "", 1)>>
    \o get_temp_var(14, "A")
    \o <<CI("", "0", "JMP", 1), Rem("// return", 1)>>

\* variant of write_call_result that sets ARG to SP - 5, whatever n_vars is
write_call_result_no_args(function_name, n_vars) ==
    LET ret_address == get_label("FunctionRet", function_name)
    IN  <<AtS(ret_address, 1), CI("D", "A", "", 1)>> \o push_d
        \o push_label("LCL")
        \o push_label("ARG")
        \o push_label("THIS")
        \o push_label("THAT")
        \o <<AtS("SP", 1), CI("D", "M", "", 1), AtN(5, 1), CI("D", "D-A", "", 1)>>
        \o <<AtS("ARG", 1), CI("M", "D", "", 1)>>
        \o <<AtS("SP", 1), CI("D", "M", "", 1), AtS("LCL", 1), CI("M", "D", "", 1)>>
        \o <<AtS(function_name, 1), CI("", "0", "JMP", 1)>>
        \o <<Lbl(ret_address, 1)>>
        \o <<Rem("// call " \o function_name \o " " \o ToString(n_vars), 1)>>

write_call_result(function_name, n_vars) ==
    LET ret_address == get_label("FunctionRet", function_name)
    IN  <<AtS(ret_address, 1), CI("D", "A", "", 1)>> \o push_d
        \o push_label("LCL")
        \o push_label("ARG")
        \o push_label("THIS")
        \o push_label("THAT")
        \o <<AtS("SP", 1), CI("D", "M", "", 1), AtN(5, 1), CI("D", "D-A", "", 1)>>
        \o <<AtN(n_vars, 1), CI("D", "D-A", "", 1)>>
        \o <<AtS("ARG", 1), CI("M", "D", "", 1)>>
        \o <<AtS("SP", 1), CI("D", "M", "", 1), AtS("LCL", 1), CI("M", "D", "", 1)>>
        \o <<AtS(function_name, 1), CI("", "0", "JMP", 1)>>
        \o <<Lbl(ret_address, 1)>>
        \o <<Rem("// call " \o function_name \o " " \o ToString(n_vars), 1)>>

RECURSIVE push_zeros(_)
push_zeros(n_vars) ==
    IF n_vars <= 0 THEN <<>> ELSE push_const(0) \o push_zeros(n_vars - 1)

\* variant of write_function_result that qualifies the entry label with the
\* namespace, as get_label does for the other labels
write_function_result_qualified(function_name, n_vars) ==
    <<Lbl(namespace \o "." \o function_name, 1)>>
    \o push_zeros(n_vars)
    \o <<Rem("// function " \o function_name \o " " \o ToString(n_vars), 1)>>

write_function_result(function_name, n_vars) ==
    <<Lbl(function_name, 1)>>
    \o push_zeros(n_vars)
    \o <<Rem("// function " \o function_name \o " " \o ToString(n_vars), 1)>>

write_init_result ==
    <<AtN(256, 1), CI("D", "A", "", 1), AtS("SP", 1), CI("M", "D", "", 1),
      AtS("Sys.init", 1), CI("", "0", "JMP", 1)>>

write_end_result ==
    <<Lbl("VMEND", 1), AtS("VMEND", 1), CI("", "0", "JMP", 1)>>

-----------------------------------------------------------------------------
(* The Hack computer that runs the emitted text.  The assembler binds a    *)
(* label to the ROM address of the instruction that follows it, a          *)
(* predefined symbol to its register, and any other symbol to a fresh RAM  *)
(* cell from 16 upwards in order of first appearance.                      *)

Rom(lines) == SelectSeq(lines, IsIns)

RomAddr(lines, i) == Cardinality({k \in 1..(i - 1) : IsIns(lines[k])})

LabelNames(lines) == {lines[i].s : i \in {k \in 1..Len(lines) : lines[k].t = "L"}}

\* every ROM address a label is bound to by some definition of it
LabelAddrs(lines) ==
    [s \in LabelNames(lines) |->
        {RomAddr(lines, i) : i \in {k \in 1..Len(lines) :
                                       lines[k].t = "L" /\ lines[k].s = s}}]

\* A label defined twice is an assembly error; which definition an assembler
\* keeps is not determined, so every choice is a possible outcome.
Picks(tab) ==
    LET dup == {s \in DOMAIN tab : Cardinality(tab[s]) > 1}
    IN  {f \in [dup -> UNION {tab[s] : s \in dup}] : \A s \in dup : f[s] \in tab[s]}

LabelTable(tab, pick) ==
    [s \in DOMAIN tab |->
        IF s \in DOMAIN pick THEN pick[s] ELSE CHOOSE a \in tab[s] : TRUE]

Predefined ==
    [SP |-> 0, LCL |-> 1, ARG |-> 2, THIS |-> 3, THAT |-> 4,
     R13 |-> 13, R14 |-> 14, R15 |-> 15]

\* the symbol loaded by instruction i of rom is used as a jump target
IsJumpRef(rom, i) == i < Len(rom) /\ rom[i + 1].t = "C" /\ rom[i + 1].j # ""

VarRefs(rom, labels) ==
    {i \in 1..Len(rom) :
        /\ rom[i].t = "@s"
        /\ rom[i].s \notin DOMAIN Predefined
        /\ rom[i].s \notin DOMAIN labels
        /\ ~IsJumpRef(rom, i)}

VarAddr(rom, labels, s) ==
    LET refs  == VarRefs(rom, labels)
        at    == {i \in refs : rom[i].s = s}
        first == CHOOSE i \in at : \A k \in at : i <= k
    IN  16 + Cardinality({rom[i].s : i \in {k \in refs : k < first}})

Read(mem, a) == IF a \in DOMAIN mem THEN mem[a] ELSE 0

Write(mem, a, v) ==
    IF v = 0 THEN [x \in (DOMAIN mem) \ {a} |-> mem[x]]
    ELSE [x \in (DOMAIN mem) \cup {a} |-> IF x = a THEN v ELSE mem[x]]

Comp(c, a, d, m) ==
    CASE c = "0"   -> 0
      [] c = "-1"  -> Wrap(-1)
      [] c = "D"   -> d
      [] c = "A"   -> a
      [] c = "M"   -> m
      [] c = "!D"  -> BitNot(d)
      [] c = "-D"  -> Wrap(-d)
      [] c = "D+1" -> Wrap(d + 1)
      [] c = "D-1" -> Wrap(d - 1)
      [] c = "M+1" -> Wrap(m + 1)
      [] c = "M-1" -> Wrap(m - 1)
      [] c = "D+A" -> Wrap(d + a)
      [] c = "D-A" -> Wrap(d - a)
      [] c = "A-D" -> Wrap(a - d)
      [] c = "D&A" -> BitAnd(d, a, 16)
      [] c = "D|A" -> BitOr(d, a, 16)

Jumps(j, v) ==
    CASE j = ""    -> FALSE
      [] j = "JMP" -> TRUE
      [] j = "JEQ" -> Signed(v) = 0
      [] j = "JNE" -> Signed(v) # 0
      [] j = "JLT" -> Signed(v) < 0
      [] j = "JGT" -> Signed(v) > 0

\* One machine state: registers, memory, control.  asym names the symbol in
\* A when it is a label that no emitted line defines yet.
StepA(m, l, rom, labels) ==
    IF l.t = "@n" THEN [m EXCEPT !.A = Wrap(l.n), !.asym = "", !.pc = @ + 1]
    ELSE IF l.s \in DOMAIN Predefined
         THEN [m EXCEPT !.A = Predefined[l.s], !.asym = "", !.pc = @ + 1]
    ELSE IF l.s \in DOMAIN labels
         THEN [m EXCEPT !.A = labels[l.s], !.asym = "", !.pc = @ + 1]
    ELSE IF IsJumpRef(rom, m.pc + 1)
         THEN [m EXCEPT !.A = 0, !.asym = l.s, !.pc = @ + 1]
    ELSE [m EXCEPT !.A = VarAddr(rom, labels, l.s), !.asym = "", !.pc = @ + 1]

StepC(m, l) ==
    LET addr == m.A % AddrMod
        v    == Comp(l.c, m.A, m.D, Read(m.ram, addr))
        m1   == [m EXCEPT !.A   = IF l.d \in {"A", "AM"} THEN v ELSE @,
                          !.D   = IF l.d = "D" THEN v ELSE @,
                          !.ram = IF l.d \in {"M", "AM"} THEN Write(@, addr, v) ELSE @]
    IN  IF ~Jumps(l.j, v) THEN [m1 EXCEPT !.pc = @ + 1]
        ELSE IF m.asym # "" THEN [m1 EXCEPT !.pc = -1, !.pend = m.asym]
        ELSE [m1 EXCEPT !.pc = m.A]

\* Run the code of one command: from where control is, until control leaves
\* the instructions of that command (ROM addresses base .. Len(rom) - 1).
RECURSIVE Run(_, _, _, _, _)
Run(m, rom, labels, base, fuel) ==
    IF fuel = 0 \/ m.pend # "" \/ m.pc < base \/ m.pc >= Len(rom) THEN m
    ELSE LET l == rom[m.pc + 1]
             n == IF l.t = "C" THEN StepC(m, l) ELSE StepA(m, l, rom, labels)
         IN  Run(n, rom, labels, base, fuel - 1)

-----------------------------------------------------------------------------
(* Bounds of the model.                                                    *)

MaxSteps == 64      \* instructions the machine runs for one command
MaxArgs == 2        \* largest argument count of a call
MaxLocals == 2      \* largest local count of a function
MaxIndex == 2       \* largest index into a segment

-----------------------------------------------------------------------------
(* The writer appends `result` to out_stream (write_all) and the machine   *)
(* runs it if control is there.  trail records the machine afterwards;     *)
(* ran tells whether control entered the command at its first instruction. *)

SP == Predefined.SP
LCL == Predefined.LCL
ARG == Predefined.ARG
THIS == Predefined.THIS
THAT == Predefined.THAT

Emit(cmd, result) ==
    LET lines == out_stream \o result
        rom   == Rom(lines)
        base  == Len(Rom(out_stream))
        tab   == LabelAddrs(lines)
    IN  \E pick \in Picks(tab) :
          LET labels == LabelTable(tab, pick)
              target == IF pend = "" THEN pc
                        ELSE IF pend \in DOMAIN labels THEN labels[pend]
                        ELSE -1
              m0 == [A |-> regA, D |-> regD, ram |-> ram, pc |-> target,
                     pend |-> IF target = -1 THEN pend ELSE "", asym |-> ""]
              m1 == Run(m0, rom, labels, base, MaxSteps)
          IN  /\ out_stream' = lines
              /\ done' = Append(done, cmd)
              /\ regA' = m1.A
              /\ regD' = m1.D
              /\ ram' = m1.ram
              /\ pc' = m1.pc
              /\ pend' = m1.pend
              /\ trail' = Append(trail,
                     [before |-> ram, ram |-> m1.ram, pc |-> m1.pc, pend |-> m1.pend,
                      ran |-> target = base, base |-> base, frames |-> frames,
                      lo |-> Len(out_stream) + 1, hi |-> Len(lines)])

-----------------------------------------------------------------------------
(* The input.  A unit is read one command at a time; the commands read so  *)
(* far are always the beginning of one of the programs below.              *)

Cmd(c, a1, a2) == [cmd |-> c, a1 |-> a1, a2 |-> a2]

Header == <<Cmd("unit", "Main", 0), Cmd("function", "Sys.init", 0)>>

PushC(k) == Cmd("push", "constant", k)

\* ways to put one operand on the stack
Operands ==
    {<<PushC(k)>> : k \in {0, 1, 7, 8, 32767}}
    \cup {<<PushC(1), Cmd("arith", "neg", 0)>>,
          <<PushC(32767), Cmd("arith", "neg", 0)>>,
          <<PushC(32767), Cmd("arith", "not", 0)>>}

ArithOps == {"add", "sub", "neg", "and", "or", "not", "eq", "gt", "lt"}

\* 21 lies under the operands, so that there is a stack cell below them
ArithPrograms ==
    {Header \o <<PushC(21)>> \o x \o y \o <<Cmd("arith", op, 0)>> :
        x \in Operands, y \in Operands, op \in ArithOps}

Pop(seg, i) == Cmd("pop", seg, i)
Push(seg, i) == Cmd("push", seg, i)
Call(f, n) == Cmd("call", f, n)
Function(f, k) == Cmd("function", f, k)
Return == Cmd("return", "", 0)

RECURSIVE Args(_)
Args(n) == IF n = 0 THEN <<>> ELSE Args(n - 1) \o <<PushC(10 + n)>>

\* a caller pushes n arguments and calls Main.f, which declares k locals
Enter(n, k) == Args(n) \o <<Call("Main.f", n), Function("Main.f", k)>>

RoundTrip(seg, i, k) == <<PushC(k), Pop(seg, i), Push(seg, i)>>

RoundTripVals == {0, 5, 32767}

\* addresses a program may load into THIS or THAT
Bases == {0, 1, 2, 3, 4, 12, 13, 255, 256, 257, 2048, 16383, 32767}

PointerSetups(p) == {<<>>} \cup {<<PushC(b), Pop("pointer", p)>> : b \in Bases}

FrameSetups ==
    {<<>>} \cup {Enter(n, k) : n \in 0..MaxArgs, k \in 0..MaxLocals}

SegmentPrograms ==
    {Header \o RoundTrip("temp", i, k) : i \in 0..8, k \in RoundTripVals}
    \cup {Header \o RoundTrip("static", i, k) : i \in 0..MaxIndex, k \in RoundTripVals}
    \cup {Header \o RoundTrip("pointer", i, k) : i \in {0, 1}, k \in RoundTripVals}
    \cup {Header \o setup \o RoundTrip("this", i, k) :
              setup \in PointerSetups(0), i \in 0..MaxIndex, k \in RoundTripVals}
    \cup {Header \o setup \o RoundTrip("that", i, k) :
              setup \in PointerSetups(1), i \in 0..MaxIndex, k \in RoundTripVals}
    \cup {Header \o setup \o RoundTrip(seg, i, k) :
              setup \in FrameSetups, seg \in {"local", "argument"},
              i \in 0..MaxIndex, k \in RoundTripVals}
    \cup {Header \o <<PushC(k), Pop("constant", i)>> :
              k \in RoundTripVals, i \in {0, 5, 300}}

\* what a callee does before it returns
Bodies(n) ==
    {<<PushC(r)>> : r \in {0, 9}}
    \cup {<<PushC(3), Pop("pointer", 0), PushC(4), Pop("pointer", 1), PushC(9)>>,
          <<PushC(77), Pop("argument", n + 1), PushC(9)>>}

PointerInit ==
    <<PushC(3000), Pop("pointer", 0), PushC(3010), Pop("pointer", 1)>>

CallPrograms ==
    UNION {{Header \o pre \o Enter(n, k) \o body \o <<Return>> :
                pre \in {<<>>, PointerInit}, k \in 0..MaxLocals, body \in Bodies(n)} :
            n \in 0..MaxArgs}
    \cup {Header \o Enter(n, k) \o Args(m) \o <<Call("Main.g", m), Function("Main.g", j)>>
              \o <<PushC(9), Return>> :
              n \in 0..MaxArgs, k \in 0..MaxLocals, m \in 0..MaxArgs, j \in 0..MaxLocals}

LabelCmds == {Cmd(c, l, 0) : c \in {"label", "goto", "if-goto"}, l \in {"loop", "end"}}

Separators == {<<>>, <<Cmd("unit", "Other", 0)>>, <<Function("Main.g", 0)>>}

LabelPrograms ==
    {Header \o <<c1>> \o sep \o <<c2>> :
        c1 \in LabelCmds, c2 \in LabelCmds, sep \in Separators \ {<<>>}}
    \cup {Header \o <<Call(f, 0)>> \o s1 \o <<Call(g, 0)>> \o s2 \o <<Call(f, 1)>> :
              f \in {"Main.f"}, g \in {"Main.f", "Main.g"},
              s1 \in Separators, s2 \in Separators}

CompareOps == {"eq", "gt", "lt"}

\* three comparisons written to one output, the last one possibly in
\* another unit
ComparePrograms ==
    {Header \o <<PushC(1), PushC(7), Cmd("arith", c1, 0), PushC(7), Cmd("arith", c2, 0)>>
        \o sep \o <<PushC(0), Cmd("arith", c3, 0)>> :
        c1 \in CompareOps, c2 \in CompareOps, c3 \in CompareOps,
        sep \in {<<>>, <<Cmd("unit", "Other", 0)>>}}

\* a call whose function is emitted later, in another unit, or earlier
LinkPrograms ==
    {Header \o pre \o <<Call(f, 0), Cmd("unit", "Other", 0), Function(f, k), PushC(9)>> :
        pre \in {<<>>, <<Call("Main.g", 0), Function("Main.g", 0)>>},
        f \in {"Main.f", "Other.f"}, k \in 0..1}
    \cup {Header \o <<Call("Main.f", 0), Function("Main.f", 0), PushC(9), Call("Main.f", 1)>>}

Programs ==
    ArithPrograms \cup SegmentPrograms \cup CallPrograms \cup LabelPrograms
    \cup ComparePrograms \cup LinkPrograms

\* what may follow each beginning of a program
Prefixes == UNION {{SubSeq(q, 1, k) : k \in 0..(Len(q) - 1)} : q \in Programs}

Following ==
    [p \in Prefixes |->
        {q[Len(p) + 1] : q \in {r \in Programs : Len(r) > Len(p)
                                                  /\ SubSeq(r, 1, Len(p)) = p}}]

NextCmds ==
    IF status = "translating" /\ Tail(done) \in Prefixes    \* done[1] is the bootstrap
    THEN Following[Tail(done)] ELSE {}

\* main: writer.write_init() before any unit
write_init ==
    /\ status = "init"
    /\ status' = "translating"
    /\ Emit(Cmd("init", "", 0), write_init_result)
    /\ UNCHANGED <<namespace, cur_func, call_count, frames>>

\* main: writer.set_namespace(...) when a unit begins
set_namespace(cmd) ==
    /\ status = "translating"
    /\ cmd.cmd = "unit"
    /\ namespace' = cmd.a1
    /\ Emit(cmd, <<>>)
    /\ UNCHANGED <<status, cur_func, call_count, frames>>

write_push_pop(cmd) ==
    /\ status = "translating"
    /\ cmd.cmd \in {"push", "pop"}
    /\ Emit(cmd, write_push_pop_result(cmd.cmd, cmd.a1, cmd.a2))
    /\ call_count' = IF cmd.a1 = "static" THEN get_label_count("Static") ELSE call_count
    /\ UNCHANGED <<status, namespace, cur_func, frames>>

write_arithmetic(cmd) ==
    /\ status = "translating"
    /\ cmd.cmd = "arith"
    /\ Emit(cmd, write_arithmetic_result(cmd.a1))
    /\ UNCHANGED <<status, namespace, cur_func, call_count, frames>>

write_label(cmd) ==
    /\ status = "translating"
    /\ cmd.cmd = "label"
    /\ Emit(cmd, write_label_result(cmd.a1))
    /\ call_count' = get_label_count("FunctionLabel")
    /\ UNCHANGED <<status, namespace, cur_func, frames>>

write_goto(cmd) ==
    /\ status = "translating"
    /\ cmd.cmd = "goto"
    /\ Emit(cmd, write_goto_result(cmd.a1))
    /\ call_count' = get_label_count("FunctionLabel")
    /\ UNCHANGED <<status, namespace, cur_func, frames>>

write_if(cmd) ==
    /\ status = "translating"
    /\ cmd.cmd = "if-goto"
    /\ Emit(cmd, write_if_result(cmd.a1))
    /\ call_count' = get_label_count("FunctionLabel")
    /\ UNCHANGED <<status, namespace, cur_func, frames>>

write_function(cmd) ==
    /\ status = "translating"
    /\ cmd.cmd = "function"
    /\ Emit(cmd, write_function_result(cmd.a1, cmd.a2))
    /\ UNCHANGED <<status, namespace, cur_func, call_count, frames>>

write_call(cmd) ==
    /\ status = "translating"
    /\ cmd.cmd = "call"
    /\ Emit(cmd, write_call_result(cmd.a1, cmd.a2))
    /\ frames' =
         IF trail'[Len(trail')].ran
         THEN Append(frames,
                [sp |-> Read(ram, SP), lcl |-> Read(ram, LCL),
                 arg |-> Read(ram, ARG), this |-> Read(ram, THIS),
                 that |-> Read(ram, THAT), n |-> cmd.a2,
                 label |-> get_label("FunctionRet", cmd.a1), after |-> ram'])
         ELSE frames
    /\ call_count' = get_label_count("FunctionRet")
    /\ UNCHANGED <<status, namespace, cur_func>>

write_return(cmd) ==
    /\ status = "translating"
    /\ cmd.cmd = "return"
    /\ Emit(cmd, write_return_result)
    /\ frames' = IF trail'[Len(trail')].ran /\ frames # <<>>
            THEN SubSeq(frames, 1, Len(frames) - 1) ELSE frames
    /\ UNCHANGED <<status, namespace, cur_func, call_count>>

\* main: writer.write_end() after the last unit
write_end ==
    /\ status = "translating"
    /\ status' = "finished"
    /\ Emit(Cmd("end", "", 0), write_end_result)
    /\ UNCHANGED <<namespace, cur_func, call_count, frames>>

\* CodeWriter::new, and the machine at power-on
CodeWriter_new ==
    /\ done = <<>>
    /\ status = "init"
    /\ out_stream = <<>>
    /\ namespace = ""
    /\ cur_func = ""
    /\ call_count = 0
    /\ regA = 0
    /\ regD = 0
    /\ ram = <<>>
    /\ pc = 0
    /\ pend = ""
    /\ trail = <<>>
    /\ frames = <<>>

\* the writer is given its commands directly; no file is read
Init ==
    /\ CodeWriter_new
    /\ parser = new(<<>>)
    /\ seen = <<>>
    /\ units = <<>>
    /\ place = "main"

reader_vars == <<parser, seen, units, place>>

Next ==
    \/ write_init /\ UNCHANGED reader_vars
    \/ \E cmd \in NextCmds : set_namespace(cmd) /\ UNCHANGED reader_vars
    \/ \E cmd \in NextCmds : write_push_pop(cmd) /\ UNCHANGED reader_vars
    \/ \E cmd \in NextCmds : write_arithmetic(cmd) /\ UNCHANGED reader_vars
    \/ \E cmd \in NextCmds : write_label(cmd) /\ UNCHANGED reader_vars
    \/ \E cmd \in NextCmds : write_goto(cmd) /\ UNCHANGED reader_vars
    \/ \E cmd \in NextCmds : write_if(cmd) /\ UNCHANGED reader_vars
    \/ \E cmd \in NextCmds : write_function(cmd) /\ UNCHANGED reader_vars
    \/ \E cmd \in NextCmds : write_call(cmd) /\ UNCHANGED reader_vars
    \/ \E cmd \in NextCmds : write_return(cmd) /\ UNCHANGED reader_vars
    \/ done # <<>> /\ Tail(done) \in Programs /\ write_end /\ UNCHANGED reader_vars

Spec == Init /\ [][Next]_vars

-----------------------------------------------------------------------------
(* The Parser on its own: a client constructs it over a file and calls     *)
(* advance, reset and set_file in any order.                               *)

MaxLines == 2       \* most lines of a file
MaxCalls == 5       \* most advance and reset calls on one stream

\* a blank line, a comment after white space, a command before a comment,
\* a command between white space
RawLines == {"\n", "  // c\n", "push constant 7 // x\n", "\tadd\r\n", "/\t///\n"}

RECURSIVE Texts(_)
Texts(n) ==
    IF n = 0 THEN {<<>>}
    ELSE Texts(n - 1) \cup {Append(t, l) : t \in Texts(n - 1), l \in RawLines}

\* the last line of a file may lack its terminator
Files == Texts(MaxLines) \cup {Append(t, "neg") : t \in Texts(MaxLines - 1)}

\* what a client sees after an advance
Observed(r) ==
    [call |-> "advance", result |-> r.result, more |-> has_more_lines(r.parser),
     cur_line |-> r.parser.cur_line, line |-> r.parser.line,
     line_raw |-> r.parser.line_raw]

advance ==
    /\ Len(seen) < MaxCalls
    /\ parser' = advance_result(parser).parser
    /\ seen' = Append(seen, Observed(advance_result(parser)))
    /\ UNCHANGED <<writer_vars, units, place>>

reset ==
    /\ Len(seen) < MaxCalls
    /\ parser' = reset_result(parser)
    /\ seen' = Append(seen, [call |-> "reset"])
    /\ UNCHANGED <<writer_vars, units, place>>

set_file(file) ==
    /\ seen # <<>>
    /\ parser' = set_file_result(parser, file)
    /\ seen' = <<>>
    /\ UNCHANGED <<writer_vars, units, place>>

ParserInit ==
    /\ CodeWriter_new
    /\ \E file \in Files : parser = new(file)
    /\ seen = <<>>
    /\ units = <<>>
    /\ place = "main"

ParserNext ==
    \/ advance
    \/ reset
    \/ \E file \in Files : set_file(file)

ParserSpec == ParserInit /\ [][ParserNext]_vars

-----------------------------------------------------------------------------
(* main and translate_file: every input file is a unit; its lines are read *)
(* by a Parser and handed to the writer one command at a time.             *)

MaxNoise == 1       \* most blank or comment lines added to a script

\* the command lines of a file, without blank and comment lines
Scripts ==
    {<<>>,
     <<"push constant 7 // x\n", "\tadd\r\n">>,
     <<"function Main.f 1\n", "label loop\n", "goto loop\n">>,
     <<"call Main.f 0\n", "if-goto loop\n", "return\n">>,
     <<"push constant 7 // x\n", "pop temp 1\n", "neg">>,
     <<"push constant 7 // x\n", "jump loop\n", "\tadd\r\n">>,
     <<"push constant\n", "\tadd\r\n">>,
     <<"\tadd\r\n", "call Main.f x\n", "return\n">>,
     <<"pop temp\n", "label loop\n">>,
     <<"label\n", "\tadd\r\n">>}

NoiseLines == {"\n", "  // c\n"}

InsertAt(t, k, l) == SubSeq(t, 1, k) \o <<l>> \o SubSeq(t, k + 1, Len(t))

\* a blank or comment line may stand anywhere before an unterminated line
RECURSIVE WithNoise(_, _)
WithNoise(script, n) ==
    IF n = 0 THEN {script}
    ELSE WithNoise(script, n - 1)
         \cup {InsertAt(t, k, l) :
                  t \in WithNoise(script, n - 1),
                  k \in {j \in 0..Len(script) : j < Len(script) \/ script = <<>>
                                               \/ script[Len(script)] # "neg"},
                  l \in NoiseLines}

UnitFiles == UNION {WithNoise(script, MaxNoise) : script \in Scripts}

Unit(name, file) == [name |-> name, file |-> file]

\* a single file, or a directory of two
Inputs ==
    {<<Unit("Main", f)>> : f \in UnitFiles}
    \cup {<<Unit("Main", f), Unit("Other", g)>> :
             f \in UnitFiles, g \in {<<>>, <<"\tadd\r\n">>}}

\* variant of grab_arg2 that takes a missing or bad argument as 0
grab_arg2_or_zero(self) ==
    IF arg2(self) = None \/ parse_i16(arg2(self)[1]) = None
    THEN Some(0) ELSE parse_i16(arg2(self)[1])

\* translate_file: grab_arg2 without its exit
grab_arg2(self) ==
    IF arg2(self) = None THEN None ELSE parse_i16(arg2(self)[1])

\* translate_file: the writer call the loaded line leads to, None where
\* the code panics or exits
translate_command(self) ==
    LET kind == command_type(self)
        a1   == IF kind # "return" THEN arg1(self) ELSE Some("")
        a2   == grab_arg2(self)
    IN  IF kind = "todo!()" \/ a1 = None THEN None
        ELSE IF kind \in {"push", "pop", "function", "call"}
        THEN IF a2 = None THEN None ELSE Some(Cmd(kind, a1[1], a2[1]))
        ELSE Some(Cmd(kind, a1[1], 0))

\* main: Parser::new over the next file and writer.set_namespace
open_unit ==
    /\ place = "main"
    /\ units # <<>>
    /\ parser' = new(Head(units).file)
    /\ seen' = <<>>
    /\ set_namespace(Cmd("unit", Head(units).name, 0))
    /\ place' = "translate_file"
    /\ UNCHANGED units

\* translate_file: parser.advance().expect(...) before the loop
translate_file_begin ==
    /\ place = "translate_file"
    /\ status = "translating"
    /\ seen = <<>>
    /\ parser' = advance_result(parser).parser
    /\ seen' = <<Observed(advance_result(parser))>>
    /\ status' = IF advance_result(parser).result = "Ok" THEN status ELSE "aborted"
    /\ UNCHANGED <<done, out_stream, namespace, cur_func, call_count, regA, regD,
                   ram, pc, pend, trail, frames, units, place>>

\* translate_file: one turn of the loop on a line the writer is called for
translate_file_step ==
    /\ place = "translate_file"
    /\ seen # <<>>
    /\ has_more_lines(parser)
    /\ translate_command(parser) # None
    /\ LET cmd == translate_command(parser)[1]
       IN  \/ write_arithmetic(cmd)
           \/ write_push_pop(cmd)
           \/ write_label(cmd)
           \/ write_goto(cmd)
           \/ write_if(cmd)
           \/ write_function(cmd)
           \/ write_call(cmd)
           \/ write_return(cmd)
    /\ parser' = advance_result(parser).parser
    /\ seen' = Append(seen, Observed(advance_result(parser)))
    /\ UNCHANGED <<units, place>>

\* translate_file: todo!() or process::exit(1) on the loaded line
translate_file_abort ==
    /\ place = "translate_file"
    /\ status = "translating"
    /\ seen # <<>>
    /\ has_more_lines(parser)
    /\ translate_command(parser) = None
    /\ status' = "aborted"
    /\ UNCHANGED <<done, out_stream, namespace, cur_func, call_count, regA, regD,
                   ram, pc, pend, trail, frames, reader_vars>>

\* translate_file: the loop ends and main goes on
translate_file_end ==
    /\ place = "translate_file"
    /\ status = "translating"
    /\ seen # <<>>
    /\ ~has_more_lines(parser)
    /\ place' = "main"
    /\ units' = Tail(units)
    /\ UNCHANGED <<writer_vars, parser, seen>>

TranslateInit ==
    /\ CodeWriter_new
    /\ parser = new(<<>>)
    /\ seen = <<>>
    /\ units \in Inputs
    /\ place = "main"

TranslateNext ==
    \/ write_init /\ UNCHANGED reader_vars
    \/ open_unit
    \/ translate_file_begin
    \/ translate_file_step
    \/ translate_file_abort
    \/ translate_file_end
    \/ place = "main" /\ units = <<>> /\ write_end /\ UNCHANGED reader_vars

TranslateSpec == TranslateInit /\ [][TranslateNext]_vars

-----------------------------------------------------------------------------
(* Reading the history.                                                    *)

StackBase == 256

Steps == 1..Len(done)

\* the top of the stack in memory mem
Top(mem) == Read(mem, (Read(mem, SP) - 1) % AddrMod)

\* returns that ran inside a frame built by a call that ran
ReturnsInFrame ==
    {i \in Steps : done[i].cmd = "return" /\ trail[i].ran /\ trail[i].frames # <<>>}

FrameOf(i) == trail[i].frames[Len(trail[i].frames)]

\* the function and the unit a command lies in
FuncAt(i) ==
    LET fs == {k \in 1..(i - 1) : done[k].cmd = "function"}
    IN  IF fs = {} THEN "" ELSE done[CHOOSE k \in fs : \A x \in fs : x <= k].a1

UnitAt(i) ==
    LET us == {k \in 1..(i - 1) : done[k].cmd = "unit"}
    IN  IF us = {} THEN "" ELSE done[CHOOSE k \in us : \A x \in us : x <= k].a1

LabelUses == {i \in Steps : done[i].cmd \in {"label", "goto", "if-goto"}}

\* the assembly label command i generated: the only symbol of its lines
\* that is not SP
GeneratedLabel(i) ==
    LET at == {k \in trail[i].lo..trail[i].hi :
                  out_stream[k].t \in {"L", "@s"} /\ out_stream[k].s # "SP"}
    IN  out_stream[CHOOSE k \in at : TRUE].s

Calls == {i \in Steps : done[i].cmd = "call"}

\* the return-address label call i defined: the line before its comment
ReturnLabel(i) == out_stream[trail[i].hi - 1].s

Definitions(label) ==
    {k \in 1..Len(out_stream) : out_stream[k].t = "L" /\ out_stream[k].s = label}

-----------------------------------------------------------------------------
(* C1.  When the code of `return` runs inside a frame built by the code of *)
(* `call f n`, control goes to that call's return-address label: the       *)
(* program counter becomes the address the call pushed as its return       *)
(* address.                                                                *)
C1_ReturnResumesAtCallSite ==
    \A i \in ReturnsInFrame :
        LET fr == FrameOf(i)
        IN  /\ trail[i].pend = ""
            /\ trail[i].pc = Read(fr.after, fr.sp)
            /\ trail[i].pc \in LabelAddrs(out_stream)[fr.label]

(* C2.  After call f n, function f k, a callee body and return, SP is the  *)
(* SP before the call minus n plus one, and the cell just below SP holds   *)
(* the value that was on top of the stack when return began.               *)
C2_StackPointerRoundTrip ==
    \A i \in ReturnsInFrame :
        LET fr == FrameOf(i)
            a  == trail[i].ram
        IN  /\ Read(a, SP) = fr.sp - fr.n + 1
            /\ Top(a) = Top(trail[i].before)

C2_Witness ==
    \E i \in ReturnsInFrame :
        /\ FrameOf(i).n = 0
        /\ Read(trail[i].ram, SP) = FrameOf(i).sp + 1
        /\ \E k \in 1..(i - 1) : done[k] = Function("Main.f", 2)

FrameIntact(i) ==
    \A j \in 0..4 :
        Read(trail[i].before, FrameOf(i).sp + j) = Read(FrameOf(i).after, FrameOf(i).sp + j)

(* C3.  If the callee leaves the five frame words as the call pushed them, *)
(* then after return LCL, ARG, THIS and THAT hold what they held before    *)
(* the call.                                                               *)
C3_FrameRestored ==
    \A i \in ReturnsInFrame :
        FrameIntact(i) =>
            LET fr == FrameOf(i)
                a  == trail[i].ram
            IN  /\ Read(a, LCL) = fr.lcl
                /\ Read(a, ARG) = fr.arg
                /\ Read(a, THIS) = fr.this
                /\ Read(a, THAT) = fr.that

C3_Witness ==
    \E i \in ReturnsInFrame :
        /\ FrameIntact(i)
        /\ FrameOf(i).lcl # 0
        /\ FrameOf(i).arg # 0
        /\ FrameOf(i).lcl # FrameOf(i).arg
        /\ Read(trail[i].ram, LCL) = FrameOf(i).lcl

(* C4.  The same user label used in two different functions of one unit    *)
(* never produces the same generated label.                                *)
C4_LabelsAreFunctionScoped ==
    \A i \in LabelUses : \A j \in LabelUses :
        (/\ done[i].a1 = done[j].a1
         /\ UnitAt(i) = UnitAt(j)
         /\ FuncAt(i) # FuncAt(j))
        => GeneratedLabel(i) # GeneratedLabel(j)

(* C5.  Any two write_call emissions generate distinct return-address      *)
(* labels, and the output defines each of them once.                       *)
C5_ReturnLabelsUnique ==
    \A i \in Calls :
        /\ \A j \in Calls : i # j => ReturnLabel(i) # ReturnLabel(j)
        /\ Cardinality(Definitions(ReturnLabel(i))) = 1

C5_Witness ==
    \E i \in Calls : \E j \in Calls : \E k \in Calls :
        /\ i < j /\ j < k
        /\ done[i].a1 = done[j].a1
        /\ UnitAt(i) # UnitAt(k)
        /\ ReturnLabel(i) # ReturnLabel(j)

(* C6.  `pop constant k` is rejected: write_push_pop appends nothing to    *)
(* the output and the translation aborts.                                  *)
C6_PopConstantRejected ==
    \A i \in Steps :
        (done[i].cmd = "pop" /\ done[i].a1 = "constant")
        => (trail[i].hi < trail[i].lo /\ status = "aborted")

\* push constant k; pop seg x; push seg x, all three run: i is the last
RoundTrips ==
    {i \in Steps :
        /\ i >= 3
        /\ done[i - 2].cmd = "push" /\ done[i - 2].a1 = "constant"
        /\ done[i - 2].a2 \in 0..32767
        /\ done[i - 1].cmd = "pop" /\ done[i].cmd = "push"
        /\ done[i - 1].a1 = done[i].a1 /\ done[i - 1].a2 = done[i].a2
        /\ \/ done[i].a1 \in {"local", "argument", "this", "that", "static"}
           \/ done[i].a1 = "temp" /\ done[i].a2 \in 0..7
           \/ done[i].a1 = "pointer" /\ done[i].a2 \in {0, 1}
        /\ done[i].a2 >= 0
        /\ trail[i - 2].ran /\ trail[i - 1].ran /\ trail[i].ran}

RoundTripHolds(i) ==
    /\ Read(trail[i].ram, SP) = Read(trail[i - 2].before, SP) + 1
    /\ Top(trail[i].ram) = done[i - 2].a2

\* base + x, the cell `seg x` addresses when the pop of round trip i begins
Addressed(i) ==
    Read(trail[i - 1].before, Predefined[map_vreg(done[i].a1)]) + done[i].a2

\* the addressed cell lies in the 16K data memory and is neither SP nor the
\* base register of the segment
NoAlias(i) ==
    done[i].a1 \in {"local", "argument", "this", "that"}
    => /\ Addressed(i) < 2^14
       /\ Addressed(i) \notin {SP, Predefined[map_vreg(done[i].a1)]}

(* C7 as claimed.  For every k in 0..32767 and every writable segment      *)
(* reference, push constant k; pop seg i; push seg i leaves k on top of    *)
(* the stack and SP one higher than before.                                *)
C7_RoundTripEverySegment == \A i \in RoundTrips : RoundTripHolds(i)

(* C7 as amended.  The same, for every segment reference whose addressed   *)
(* cell (base + i for local, argument, this, that) lies in the data memory *)
(* and is neither the SP register nor the base register of the segment.    *)
C7_RoundTripWithoutAlias == \A i \in RoundTrips : NoAlias(i) => RoundTripHolds(i)

C7_Witness ==
    \E i \in RoundTrips :
        /\ done[i].a1 = "local" /\ done[i].a2 = 1
        /\ done[i - 2].a2 = 32767
        /\ NoAlias(i)
        /\ Addressed(i) > StackBase
        /\ Top(trail[i].ram) = 32767

Binary == {"add", "sub", "and", "or", "eq", "gt", "lt"}

Arithmetics == {i \in Steps : done[i].cmd = "arith" /\ trail[i].ran}

\* the operands of arithmetic command i: y on top, x below it
OperandY(i) == Read(trail[i].before, Read(trail[i].before, SP) - 1)
OperandX(i) == Read(trail[i].before, Read(trail[i].before, SP) - 2)

(* C8.  The code of a binary operator changes SP by -1 and that of a unary *)
(* operator by 0, and every stack cell below the consumed operands is left *)
(* unchanged.                                                              *)
C8_ArithmeticStackDepth ==
    \A i \in Arithmetics :
        LET b     == trail[i].before
            a     == trail[i].ram
            arity == IF done[i].a1 \in Binary THEN 2 ELSE 1
        IN  /\ Read(a, SP) = Read(b, SP) - (arity - 1)
            /\ \A c \in StackBase..(Read(b, SP) - arity - 1) : Read(a, c) = Read(b, c)

C8_Witness ==
    \E i \in Arithmetics : \E j \in Arithmetics :
        /\ done[i].a1 = "lt" /\ done[j].a1 = "neg" /\ j < i
        /\ Read(trail[i].before, SP) >= StackBase + 3
        /\ Read(trail[i].ram, SP) = Read(trail[i].before, SP) - 1
        /\ Read(trail[i].ram, StackBase) = 21

(* C9.  With x the second-from-top and y the top value, add, sub, and, or  *)
(* leave x+y, x-y, x&y, x|y (16 bits, wrapping) on top of the stack; neg   *)
(* and not leave -y and the bitwise complement of y.                       *)
C9_ArithmeticResults ==
    \A i \in Arithmetics :
        LET x   == OperandX(i)
            y   == OperandY(i)
            top == Top(trail[i].ram)
            op  == done[i].a1
        IN  /\ op = "add" => top = (x + y) % WordMod
            /\ op = "sub" => top = (x - y) % WordMod
            /\ op = "and" => top = BitAnd(x, y, 16)
            /\ op = "or"  => top = BitOr(x, y, 16)
            /\ op = "neg" => top = (WordMod - y) % WordMod
            /\ op = "not" => top = WordMod - 1 - y

C9_Witness ==
    \E i \in Arithmetics :
        /\ i >= 3
        /\ done[i - 2] = PushC(7) /\ done[i - 1] = PushC(8)
        /\ done[i] = Cmd("arith", "add", 0)
        /\ Top(trail[i].ram) = 15

(* C10.  For every pair of signed 16-bit values x (second from top) and y  *)
(* (top), eq, gt, lt push -1 (all bits one) when x = y, x > y, x < y       *)
(* respectively and 0 otherwise.                                           *)
C10_ComparisonResults ==
    \A i \in Arithmetics :
        LET x   == Signed(OperandX(i))
            y   == Signed(OperandY(i))
            top == Top(trail[i].ram)
            op  == done[i].a1
        IN  /\ op = "eq" => top = IF x = y THEN WordMod - 1 ELSE 0
            /\ op = "gt" => top = IF x > y THEN WordMod - 1 ELSE 0
            /\ op = "lt" => top = IF x < y THEN WordMod - 1 ELSE 0

-----------------------------------------------------------------------------
\* the lines command i appended to the output
Emitted(i) == SubSeq(out_stream, trail[i].lo, trail[i].hi)

IsWarning(l) == l.t = "//" /\ l.s = temp_warning

TempUses == {i \in Steps : done[i].cmd \in {"push", "pop"} /\ done[i].a1 = "temp"
                            /\ done[i].a2 >= 0 /\ trail[i].ran}

(* C14.  For every index i > 7, push or pop on temp succeeds, still emits  *)
(* the code that addresses RAM[5 + i] and adds the warning; for i in 0..7  *)
(* the same code is emitted without the warning.  The index is never       *)
(* turned into an error.                                                   *)
C14_TempRangeIsPermissive ==
    \A i \in TempUses :
        LET b    == trail[i].before
            a    == trail[i].ram
            cell == 5 + done[i].a2
        IN  /\ status # "aborted"
            /\ Len(SelectSeq(Emitted(i), IsWarning)) = IF done[i].a2 > 7 THEN 1 ELSE 0
            /\ Len(SelectSeq(Emitted(i), IsIns)) = IF done[i].cmd = "push" THEN 10 ELSE 12
            /\ done[i].cmd = "push" =>
                    /\ Read(a, SP) = Read(b, SP) + 1
                    /\ Top(a) = Read(b, cell)
            /\ done[i].cmd = "pop" =>
                    /\ Read(a, SP) = Read(b, SP) - 1
                    /\ Read(a, cell) = Top(b)

C14_Witness ==
    \E i \in TempUses : \E j \in TempUses :
        /\ j = i + 1
        /\ done[i] = Pop("temp", 8) /\ done[j] = Push("temp", 8)
        /\ Read(trail[i].ram, 13) = 32767
        /\ Top(trail[j].ram) = 32767
        /\ Len(SelectSeq(Emitted(i), IsWarning)) = 1
        /\ Len(SelectSeq(Emitted(j), IsWarning)) = 1

(* C17.  After write_function(f, n) the current-function name of the       *)
(* writer is f, and it stays f until the next write_function.              *)
C17_CurrentFunctionFollows ==
    (\E i \in Steps : done[i].cmd = "function") => cur_func = FuncAt(Len(done) + 1)

Compares == {i \in Steps : done[i].cmd = "arith" /\ done[i].a1 \in CompareOps}

\* the labels comparison i defined
CompareLabels(i) ==
    {out_stream[k].s : k \in {x \in trail[i].lo..trail[i].hi : out_stream[x].t = "L"}}

\* the write position when command i was emitted
PositionAt(i) == TextBytes(SubSeq(out_stream, 1, trail[i].lo - 1))

(* C18.  The labels of any two eq/gt/lt emissions to one output are        *)
(* distinct, each is IF<pos> or ENDIF<pos+1> for the write position pos of *)
(* its emission, and none is defined twice in the output.                  *)
C18_CompareLabelsUnique ==
    \A i \in Compares :
        /\ CompareLabels(i) = {"IF" \o ToString(PositionAt(i)),
                               "ENDIF" \o ToString(PositionAt(i) + 1)}
        /\ \A j \in Compares : i # j => CompareLabels(i) \cap CompareLabels(j) = {}
        /\ \A l \in CompareLabels(i) : Cardinality(Definitions(l)) = 1

C18_Witness ==
    \E i \in Compares : \E j \in Compares : \E k \in Compares :
        /\ i < j /\ j < k
        /\ done[i].a1 = done[j].a1
        /\ UnitAt(j) # UnitAt(k)
        /\ PositionAt(i) < PositionAt(j)
        /\ Cardinality(CompareLabels(i) \cup CompareLabels(j) \cup CompareLabels(k)) = 6

RanCalls == {i \in Calls : trail[i].ran}

(* C19.  The code of `call f n`, run with stack pointer S, pushes exactly  *)
(* five words at S..S+4: the return address, then LCL, ARG, THIS and THAT  *)
(* as they were before the call; it sets ARG = S - n and LCL = SP = S + 5  *)
(* and jumps to the entry of f.                                            *)
C19_CallBuildsFrame ==
    \A i \in RanCalls :
        LET b == trail[i].before
            a == trail[i].ram
            S == Read(b, SP)
            n == done[i].a2
            f == done[i].a1
        IN  /\ Read(a, S) \in LabelAddrs(out_stream)[ReturnLabel(i)]
            /\ Read(a, S + 1) = Read(b, LCL)
            /\ Read(a, S + 2) = Read(b, ARG)
            /\ Read(a, S + 3) = Read(b, THIS)
            /\ Read(a, S + 4) = Read(b, THAT)
            /\ Read(a, ARG) = (S - n) % WordMod
            /\ Read(a, LCL) = S + 5
            /\ Read(a, SP) = S + 5
            /\ \A c \in (DOMAIN a \cup DOMAIN b) \ ({SP, LCL, ARG} \cup S..(S + 4)) :
                    Read(a, c) = Read(b, c)
            /\ \/ trail[i].pend = f
               \/ trail[i].pend = "" /\ trail[i].pc \in LabelAddrs(out_stream)[f]

C19_Witness ==
    \E i \in RanCalls :
        /\ done[i].a2 = 2
        /\ Read(trail[i].before, LCL) > StackBase
        /\ Read(trail[i].before, ARG) >= StackBase
        /\ Read(trail[i].ram, ARG) = Read(trail[i].before, SP) - 2
        /\ Read(trail[i].ram, Read(trail[i].before, SP) + 1) = Read(trail[i].before, LCL)

\* what the claim says of a loaded line
HasToken(l) == l # "" /\ find(l, "//") = None /\ split_whitespace(l) # <<>>

(* C22.  Whenever advance() returns success the loaded line is non-empty,  *)
(* contains no `//` and has at least one white-space-delimited token, for  *)
(* every raw input line; so command_type() on a loaded line finds a first  *)
(* token.                                                                  *)
C22_LoadedLineHasToken ==
    /\ \A i \in DOMAIN seen :
          seen[i].call = "advance" /\ seen[i].result = "Ok" =>
              seen[i].cur_line # None /\ HasToken(seen[i].cur_line[1])
    /\ parser.cur_line # None =>
          /\ HasToken(parser.cur_line[1])
          /\ get(split_command(parser), 0) # None

C22_Witness ==
    \E i \in DOMAIN seen :
        /\ seen[i].call = "advance" /\ seen[i].result = "Ok"
        /\ seen[i].cur_line = Some("push constant 7 ")
        /\ seen[i].line_raw = 1
        /\ parser.input[1] = "  // c\n"

Functions == {j \in Steps : done[j].cmd = "function"}

\* the jump of call i: `@{function_name}` and `0;JMP` before the return label
CallJump(i) == SubSeq(out_stream, trail[i].hi - 3, trail[i].hi - 2)

\* the first line write_function emitted for command j
EntryLine(j) == out_stream[trail[j].lo]

\* the function commands that first define the label call i waits for
Entered(i) ==
    {j \in Functions :
        /\ j > i /\ done[j].a1 = done[i].a1
        /\ \A x \in Functions : done[x].a1 = done[i].a1 => j <= x}

(* C23.  For every function name f, the label the code of write_call(f, n) *)
(* jumps to is the entry label write_function(f, k) defines, whatever the  *)
(* namespace, current-function name and counter are at either emission; a  *)
(* call that runs reaches the function emitted later, in any unit.         *)
C23_CallReachesEntry ==
    /\ \A i \in Calls : \A j \in Functions :
          done[i].a1 = done[j].a1 =>
              /\ CallJump(i) = <<AtS(EntryLine(j).s, 1), CI("", "0", "JMP", 1)>>
              /\ EntryLine(j) = Lbl(done[i].a1, 1)
    /\ \A i \in Calls : \A j \in Entered(i) :
          trail[i].ran =>
              /\ trail[i].pend = done[i].a1
              /\ trail[j].ran
              /\ LabelAddrs(out_stream)[done[i].a1] = {trail[j].base}

C23_Witness ==
    \E i \in Calls : \E j \in Entered(i) :
        /\ trail[i].ran /\ trail[j].ran
        /\ done[i].a1 = "Main.f"
        /\ UnitAt(i) = "Main" /\ UnitAt(j) = "Other"
        /\ call_count = 2
        /\ Read(trail[j].ram, SP) = Read(trail[i].ram, SP) + done[j].a2
        /\ done[j].a2 = 1

\* the emitter operation a step performs: the command it appends to done
Emits(kind) == Len(done') = Len(done) + 1 /\ done'[Len(done')].cmd = kind

(* C21.  The call-site counter grows by exactly one on each write_call and *)
(* is left unchanged by every other emitter operation; set_namespace       *)
(* changes only the namespace, so the counter and the current-function     *)
(* name are unchanged by it, and the counter never decreases.              *)
C21_CallCountFrame ==
    [][ /\ Emits("call") => call_count' = call_count + 1
        /\ ~ Emits("call") => call_count' = call_count
        /\ Emits("unit") =>
                /\ namespace' = done'[Len(done')].a1
                /\ cur_func' = cur_func
                /\ out_stream' = out_stream
                /\ status' = status
        /\ call_count' >= call_count ]_vars

C21_Witness ==
    /\ call_count = 3
    /\ namespace = "Other"
    /\ \E i \in Steps : \E j \in Steps : \E k \in Steps :
          /\ i < j /\ j < k
          /\ done[i].cmd = "call" /\ done[j].cmd = "unit" /\ done[k].cmd = "call"

-----------------------------------------------------------------------------
(* Reading the history of the parser.                                      *)

Resets == {i \in 1..Len(seen) : seen[i].call = "reset"}

\* the calls made since the stream was last at its start
SinceStart ==
    IF Resets = {} THEN seen
    ELSE SubSeq(seen, (CHOOSE i \in Resets : \A j \in Resets : j <= i) + 1, Len(seen))

\* every advance since the start succeeded, and there was one
AllLoaded ==
    SinceStart # <<>> /\ \A i \in 1..Len(SinceStart) : SinceStart[i].result = "Ok"

(* C11.  After any sequence of successful advance() calls since            *)
(* construction or reset, line_raw is the number of raw lines consumed     *)
(* from the stream and line is the number of non-blank lines loaded.       *)
C11_LineCounters ==
    AllLoaded => /\ parser.line_raw = parser.pos
                 /\ parser.line = Len(SinceStart)

(* C12.  In every parser state reachable by new, advance, reset and        *)
(* set_file, has_more_lines() is true exactly when a line is loaded.       *)
C12_HasMoreIffLoaded == has_more_lines(parser) <=> parser.cur_line # None

\* what the first n advance calls give on parser self
RECURSIVE Replay(_, _)
Replay(self, n) ==
    IF n = 0 THEN <<>>
    ELSE <<Observed(advance_result(self))>>
         \o Replay(advance_result(self).parser, n - 1)

(* C16.  After reset(), called in any state, the advance() calls that      *)
(* follow give the same loaded lines, the same line and line_raw values    *)
(* and the same end-of-input point as they do on a freshly constructed     *)
(* parser over the same stream.                                            *)
C16_ResetReplays == SinceStart = Replay(new(parser.input), Len(SinceStart))

C16_Witness ==
    /\ \E i \in Resets :
           i > 1 /\ seen[i - 1].call = "advance" /\ seen[i - 1].result = "UnexpectedEof"
    /\ Len(SinceStart) >= 2
    /\ SinceStart[1].result = "Ok" /\ SinceStart[1].line_raw > 0
    /\ SinceStart[2].result = "UnexpectedEof"

-----------------------------------------------------------------------------
(* Reading the history of a run of main.                                   *)

\* what each command line of the scripts says, read by hand
CommandOf(l) ==
    CASE l = "push constant 7 // x\n" -> Cmd("push", "constant", 7)
      [] l = "\tadd\r\n"              -> Cmd("arith", "add", 0)
      [] l = "neg"                    -> Cmd("arith", "neg", 0)
      [] l = "pop temp 1\n"           -> Cmd("pop", "temp", 1)
      [] l = "function Main.f 1\n"    -> Cmd("function", "Main.f", 1)
      [] l = "call Main.f 0\n"        -> Cmd("call", "Main.f", 0)
      [] l = "label loop\n"           -> Cmd("label", "loop", 0)
      [] l = "goto loop\n"            -> Cmd("goto", "loop", 0)
      [] l = "if-goto loop\n"         -> Cmd("if-goto", "loop", 0)
      [] l = "return\n"               -> Cmd("return", "", 0)
      [] OTHER                        -> Cmd("malformed", l, 0)

\* an unknown first token, or push/pop/function/call without an integer
\* second argument
MalformedLines == {"jump loop\n", "push constant\n", "call Main.f x\n", "pop temp\n"}

RECURSIVE CommandsOf(_)
CommandsOf(lines) ==
    IF lines = <<>> THEN <<>>
    ELSE IF Head(lines) \in NoiseLines THEN CommandsOf(Tail(lines))
    ELSE <<CommandOf(Head(lines))>> \o CommandsOf(Tail(lines))

\* the raw line that is loaded: the last one read
LoadedLine == parser.input[parser.pos]

\* the lines of the unit that translate_file is done with: all of them
\* once it has returned, and inside the loop those read before the loaded one
Processed ==
    IF place = "main" THEN parser.input
    ELSE SubSeq(parser.input, 1,
                IF parser.cur_line # None THEN parser.pos - 1 ELSE parser.pos)

UnitMarks == {i \in 1..Len(done) : done[i].cmd = "unit"}

IsWriterCall(c) == c.cmd \notin {"init", "unit", "end"}

\* the writer calls translate_file made for the unit last opened
UnitDone ==
    IF UnitMarks = {} THEN <<>>
    ELSE SelectSeq(
            SubSeq(done, (CHOOSE i \in UnitMarks : \A j \in UnitMarks : j <= i) + 1,
                   Len(done)),
            IsWriterCall)

AtEndOfInput == seen # <<>> /\ seen[Len(seen)].result = "UnexpectedEof"

(* C13.  End of input is a normal termination: for every unit, also one    *)
(* without any command, advance() at the end of the stream leaves          *)
(* has_more_lines() false and translate_file ends without aborting the     *)
(* run.                                                                    *)
C13_EndOfInputIsNormal ==
    AtEndOfInput => ~has_more_lines(parser) /\ status # "aborted"

(* C15.  When the loaded line has an unknown first token, or is a push,    *)
(* pop, function or call without an integer second argument, the run       *)
(* aborts at that line: the step taken there aborts without output, and    *)
(* nothing is written once the run has aborted.                            *)
C15_MalformedIsFatal ==
    [][/\ (/\ place = "translate_file"
           /\ status = "translating"
           /\ has_more_lines(parser)
           /\ LoadedLine \in MalformedLines)
          => (status' = "aborted" /\ out_stream' = out_stream /\ done' = done)
       /\ status = "aborted" => out_stream' = out_stream]_vars

C15_Witness ==
    /\ status = "aborted"
    /\ has_more_lines(parser)
    /\ LoadedLine = "call Main.f x\n"
    /\ parser.pos < Len(parser.input)
    /\ Len(units) = 2
    /\ UnitDone = <<Cmd("arith", "add", 0)>>

(* C20.  translate_file makes exactly one writer call for each non-blank,  *)
(* non-comment line it is done with, in source order and with the kind and *)
(* arguments of that line, and none once the last line is processed.       *)
C20_OneCallPerLine == UnitDone = CommandsOf(Processed)

C20_Witness ==
    /\ AtEndOfInput
    /\ place = "main"
    /\ parser.input = <<"push constant 7 // x\n", "  // c\n", "pop temp 1\n", "neg">>
    /\ UnitDone = <<Cmd("push", "constant", 7), Cmd("pop", "temp", 1), Cmd("arith", "neg", 0)>>

====
